---- MODULE Spec2Model ----
(***************************************************************************)
(* Model of scripts/fetch_data.py: the net-liquidity batch pipeline.       *)
(*                                                                         *)
(* A DataFrame is a function from its index (a set of dates, kept in       *)
(* increasing order by pandas) to rows; a row is a function from column    *)
(* names to cells; a cell is <<>> (NaN) or <<v>> (the number v).           *)
(* A date is the day number counted from START_DATE (2023-01-01 = 1).      *)
(* Text is a sequence of one-character strings.                            *)
(***************************************************************************)
EXTENDS Integers, Sequences, FiniteSets, TLC

VARIABLES
    treasury_api,   \* what the Treasury endpoint answers during this run
    fred_api,       \* what FRED answers during this run
    pc,             \* position of main()
    tga_df,         \* main: tga_df
    fred_df,        \* main: fred_df
    merged_df,      \* main: merged_df
    file,           \* content of public/data.json
    log,            \* lines printed so far
    exit_code       \* <<>> while running, <<n>> once the process has exited

vars == <<treasury_api, fred_api, pc, tga_df, fred_df, merged_df, file, log, exit_code>>

(***************************************************************************)
(* Bounds                                                                  *)
(***************************************************************************)
MaxDate == 3        \* dates are 1..MaxDate
MaxRecs == 2        \* records in a Treasury response under SpecTGA
WeekLen == 2        \* days between two observations of a weekly series

Dates == 1..MaxDate

(***************************************************************************)
(* Cells and frames                                                        *)
(***************************************************************************)
NaN == <<>>
Num(v) == <<v>>
IsNa(cell) == cell = NaN

EmptyFrame == <<>>

\* DataFrame.empty
IsEmpty(df) == DOMAIN df = {}

Columns(df) == IF IsEmpty(df) THEN {} ELSE DOMAIN df[CHOOSE d \in DOMAIN df : TRUE]

MaxOf(S) == CHOOSE x \in S : \A y \in S : y <= x
MinOf(S) == CHOOSE x \in S : \A y \in S : x <= y

\* elementwise arithmetic of pandas: NaN propagates
Mul(cell, k) == IF IsNa(cell) THEN NaN ELSE Num(cell[1] * k)
Add(a, b) == IF IsNa(a) \/ IsNa(b) THEN NaN ELSE Num(a[1] + b[1])
Sub(a, b) == IF IsNa(a) \/ IsNa(b) THEN NaN ELSE Num(a[1] - b[1])

\* Series.fillna(other)
Fillna(a, b) == IF IsNa(a) THEN b ELSE a

\* df[c] = values: assign (create or overwrite) one column
SetColumn(df, c, values) ==
    [d \in DOMAIN df |->
        [k \in (DOMAIN df[d]) \cup {c} |-> IF k = c THEN values[d] ELSE df[d][k]]]

\* forward fill of one column: the value carried from the nearest earlier row
RECURSIVE FfillCell(_, _, _)
FfillCell(df, c, d) ==
    IF ~IsNa(df[d][c]) THEN df[d][c]
    ELSE LET before == {e \in DOMAIN df : e < d}
         IN  IF before = {} THEN NaN ELSE FfillCell(df, c, MaxOf(before))

\* Series.ffill()
FfillColumn(df, c) == [d \in DOMAIN df |-> FfillCell(df, c, d)]

\* DataFrame.ffill(): every column
Ffill(df) == [d \in DOMAIN df |-> [c \in DOMAIN df[d] |-> FfillCell(df, c, d)]]

\* DataFrame.dropna(): drop the rows with a NaN in any column
Dropna(df) ==
    LET keep == {d \in DOMAIN df : \A c \in DOMAIN df[d] : ~IsNa(df[d][c])}
    IN  [d \in keep |-> df[d]]

\* left.join(right, how='outer'): index union, columns of both, NaN where absent
JoinOuter(left, right) ==
    LET lc == Columns(left)
        rc == Columns(right)
    IN  [d \in (DOMAIN left) \cup (DOMAIN right) |->
            [c \in lc \cup rc |->
                IF c \in lc
                THEN (IF d \in DOMAIN left THEN left[d][c] ELSE NaN)
                ELSE (IF d \in DOMAIN right THEN right[d][c] ELSE NaN)]]

(***************************************************************************)
(* Text                                                                    *)
(***************************************************************************)
UpperCase == <<"A", "B", "C", "D", "E", "F", "G", "H", "I", "J", "K", "L", "M",
               "N", "O", "P", "Q", "R", "S", "T", "U", "V", "W", "X", "Y", "Z">>
LowerCase == <<"a", "b", "c", "d", "e", "f", "g", "h", "i", "j", "k", "l", "m",
               "n", "o", "p", "q", "r", "s", "t", "u", "v", "w", "x", "y", "z">>

LowerChar(ch) ==
    IF \E i \in DOMAIN UpperCase : UpperCase[i] = ch
    THEN LowerCase[CHOOSE i \in DOMAIN UpperCase : UpperCase[i] = ch]
    ELSE ch

\* Series.str.contains(pat, case=False) for a literal pattern: pat occurs in s
\* as a contiguous substring, letters compared without regard to case
Contains(s, pat) ==
    \E k \in 0..(Len(s) - Len(pat)) :
        \A i \in 1..Len(pat) : LowerChar(s[k + i]) = LowerChar(pat[i])

\* Series.str.replace(',', '')
RECURSIVE RemoveCommas(_)
RemoveCommas(s) ==
    IF s = <<>> THEN <<>>
    ELSE IF Head(s) = "," THEN RemoveCommas(Tail(s))
    ELSE <<Head(s)>> \o RemoveCommas(Tail(s))

Digits == <<"0", "1", "2", "3", "4", "5", "6", "7", "8", "9">>
IsDigit(ch) == \E i \in DOMAIN Digits : Digits[i] = ch
DigitValue(ch) == (CHOOSE i \in DOMAIN Digits : Digits[i] = ch) - 1

RECURSIVE DecimalValue(_)
DecimalValue(s) ==
    IF s = <<>> THEN 0
    ELSE DecimalValue(SubSeq(s, 1, Len(s) - 1)) * 10 + DigitValue(s[Len(s)])

\* pd.to_numeric(text, errors='coerce'): the number, or NaN for anything else
ToNumeric(s) ==
    IF s # <<>> /\ \A i \in DOMAIN s : IsDigit(s[i]) THEN Num(DecimalValue(s)) ELSE NaN

\* a JSON null field, as pandas holds it (None)
None == <<"None">>

\* Series.astype(str)
AsStr(x) == IF x = None THEN <<"N", "o", "n", "e">> ELSE x

\* the decimal text of a natural number
RECURSIVE NatText(_)
NatText(n) ==
    IF n < 10 THEN <<Digits[n + 1]>> ELSE NatText(n \div 10) \o <<Digits[(n % 10) + 1]>>

\* the text of a balance as the Treasury API prints it: thousands separators
ThousandsText(n) ==
    LET t == NatText(n)
    IN  IF Len(t) <= 3 THEN t
        ELSE SubSeq(t, 1, Len(t) - 3) \o <<",">> \o SubSeq(t, Len(t) - 2, Len(t))

\* record_date 'YYYY-MM-DD' of day d (January 2023)
DateText(d) == <<2023, 1, d>>

\* pd.to_datetime(record_date)
ToDatetime(s) == s[3]

\* Timestamp.strftime('%Y-%m-%d')
Strftime(d) == <<2023, 1, d>>

(***************************************************************************)
(* fetch_treasury_tga                                                      *)
(*                                                                         *)
(* An answer of the Treasury endpoint is [ok, has_data, data]: ok is FALSE *)
(* when the request or the JSON decoding raises, has_data tells whether    *)
(* the envelope has a 'data' field, data is the list of records.           *)
(***************************************************************************)
TGA_PATTERN == <<"T", "r", "e", "a", "s", "u", "r", "y", " ", "G", "e", "n", "e", "r", "a", "l",
                 " ", "A", "c", "c", "o", "u", "n", "t">>

\* step 1: the mask of the account filter
IsTgaAccount(rec) == Contains(rec.account_type, TGA_PATTERN)

\* step 2: remove commas, parse
CloseClean(rec) == ToNumeric(RemoveCommas(AsStr(rec.close_today_bal)))
OpenClean(rec) == ToNumeric(RemoveCommas(AsStr(rec.open_today_bal)))

\* step 3: close, else open
SmartSelection(rec) == Fillna(CloseClean(rec), OpenClean(rec))

PickLast(S) == MaxOf(S)
\* GroupBy.first(): of the rows of one group, the one that comes first
PickFirst(S) == MinOf(S)

\* steps 1-6 on a non-empty record list
TgaFrame(data) ==
    LET masked   == SelectSeq(data, IsTgaAccount)
        selected == [i \in DOMAIN masked |->
                        [date |-> ToDatetime(masked[i].record_date),
                         TGA_Daily |-> SmartSelection(masked[i])]]
        HasValue(r) == ~IsNa(r.TGA_Daily)
        kept     == SelectSeq(selected, HasValue)
        groups   == {kept[i].date : i \in DOMAIN kept}
    IN  [d \in groups |->
            [c \in {"TGA_Daily"} |->
                kept[PickFirst({i \in DOMAIN kept : kept[i].date = d})].TGA_Daily]]

fetch_treasury_tga(api) ==
    IF ~api.ok THEN EmptyFrame                 \* except Exception
    ELSE IF ~api.has_data THEN EmptyFrame      \* 'data' not in data
    ELSE IF api.data = <<>> THEN EmptyFrame    \* df.empty
    ELSE TgaFrame(api.data)

(***************************************************************************)
(* fetch_fred_data                                                         *)
(*                                                                         *)
(* FRED's answer is [fails, obs]: fails is the set of series whose         *)
(* download raises, obs[id] the observations (date -> number) of series id.*)
(***************************************************************************)
FredIds == <<"WALCL", "RRPONTSYD", "WDTGAL", "H41RESPPALDKNWW", "WLCFLL">>
FredIdSet == {FredIds[i] : i \in DOMAIN FredIds}

\* fred_data.rename(columns=...)
Rename == [WALCL |-> "Fed_Assets", RRPONTSYD |-> "RRP", WDTGAL |-> "TGA_Weekly",
           H41RESPPALDKNWW |-> "Liquidity_Facilities", WLCFLL |-> "Loans_Held"]

\* web.DataReader([...], 'fred', ...): one column per series, joined on the date
DataReader(obs) ==
    [d \in UNION {DOMAIN obs[id] : id \in FredIdSet} |->
        [c \in {Rename[id] : id \in FredIdSet} |->
            LET id == CHOOSE i \in FredIdSet : Rename[i] = c
            IN  IF d \in DOMAIN obs[id] THEN Num(obs[id][d]) ELSE NaN]]

fetch_fred_data(api) ==
    IF api.fails # {} THEN EmptyFrame          \* except Exception
    ELSE DataReader(api.obs)

(***************************************************************************)
(* main                                                                    *)
(***************************************************************************)
\* sys.exit(1)
FatalExitCode == 1

\* Weekly TGA is in Billions, multiply by 1000 to get Millions
TGA_WEEKLY_FACTOR == 1000
\* merged_df['RRP'] * 1000
RRP_FACTOR == 1000

ShouldAbortBothEmpty(tga, fred) == IsEmpty(fred) /\ IsEmpty(tga)
\* if fred_df.empty
ShouldAbort(tga, fred) == IsEmpty(fred)

\* if not tga_df.empty: join, Final_TGA = TGA_Daily, forward-filled
MergeDaily(fred, tga) ==
    LET joined == JoinOuter(fred, tga)
        copied == SetColumn(joined, "Final_TGA", [d \in DOMAIN joined |-> joined[d]["TGA_Daily"]])
    IN  SetColumn(copied, "Final_TGA", FfillColumn(copied, "Final_TGA"))

MergeFallbackUnscaled(fred) ==
    SetColumn(fred, "Final_TGA", [d \in DOMAIN fred |-> fred[d]["TGA_Weekly"]])
\* else: Final_TGA = TGA_Weekly * 1000
MergeFallback(fred) ==
    SetColumn(fred, "Final_TGA",
              [d \in DOMAIN fred |-> Mul(fred[d]["TGA_Weekly"], TGA_WEEKLY_FACTOR)])

FfillOnly(df) == Ffill(df)
DropnaOnly(df) == Dropna(df)
\* merged_df.ffill().dropna()
FillMissing(df) == Dropna(Ffill(df))

Net_Liquidity_Plus(row) ==
    Add(Add(Sub(Add(row["Fed_Assets"], row["Final_TGA"]), Mul(row["RRP"], RRP_FACTOR)),
            row["Liquidity_Facilities"]), row["Loans_Held"])
\* Assets - TGA - RRP * 1000 + Liquidity Facilities + Loans Held
Net_Liquidity(row) ==
    Add(Add(Sub(Sub(row["Fed_Assets"], row["Final_TGA"]), Mul(row["RRP"], RRP_FACTOR)),
            row["Liquidity_Facilities"]), row["Loans_Held"])

\* the i-th date of an index, in increasing order
IthDate(S, i) == CHOOSE d \in S : Cardinality({e \in S : e < d}) = i - 1

\* reset_index, strftime, column selection, rename: the records to_json writes
OutputRecords(df) ==
    [i \in 1..Cardinality(DOMAIN df) |->
        LET d == IthDate(DOMAIN df, i)
        IN  [date |-> Strftime(d),
             Net_Liquidity |-> df[d]["Net_Liquidity"],
             Fed_Assets |-> df[d]["Fed_Assets"],
             RRP |-> df[d]["RRP"],
             TGA_Daily |-> df[d]["Final_TGA"],
             Liquidity_Facilities |-> df[d]["Liquidity_Facilities"],
             Loans_Held |-> df[d]["Loans_Held"]]]

(***************************************************************************)
(* The file public/data.json is [rows, closed]: the records written so far *)
(* and whether the document is complete (the closing bracket is written).  *)
(***************************************************************************)
Snapshot(rows) == [rows |-> rows, closed |-> TRUE]
Truncated == [rows |-> <<>>, closed |-> FALSE]

\* the snapshot an earlier run left behind
PrevSnapshot ==
    Snapshot(<<[date |-> <<2022, 12, 31>>, Net_Liquidity |-> Num(7), Fed_Assets |-> Num(9),
                RRP |-> Num(1), TGA_Daily |-> Num(2), Liquidity_Facilities |-> Num(0),
                Loans_Held |-> Num(1)]>>)

(***************************************************************************)
(* What the two providers answer                                           *)
(***************************************************************************)
TGA_CLOSING == <<"T", "r", "e", "a", "s", "u", "r", "y", " ", "G", "e", "n", "e", "r", "a", "l",
                 " ", "A", "c", "c", "o", "u", "n", "t", " ", "(", "T", "G", "A", ")", " ",
                 "C", "l", "o", "s", "i", "n", "g", " ", "B", "a", "l", "a", "n", "c", "e">>
TGA_OPENING_UPPER == <<"T", "R", "E", "A", "S", "U", "R", "Y", " ", "G", "E", "N", "E", "R", "A",
                 "L", " ", "A", "C", "C", "O", "U", "N", "T", " ", "(", "T", "G", "A", ")", " ",
                 "O", "P", "E", "N", "I", "N", "G", " ", "B", "A", "L", "A", "N", "C", "E">>
FEDERAL_RESERVE == <<"F", "e", "d", "e", "r", "a", "l", " ", "R", "e", "s", "e", "r", "v", "e",
                 " ", "A", "c", "c", "o", "u", "n", "t">>
NullText == <<"n", "u", "l", "l">>

TreasuryBalance(d) == 2000 + 10 * (d - 1)

FredValue(id, d) ==
    CASE id = "WALCL"           -> 20000 + 100 * (d - 1)
      [] id = "RRPONTSYD"       -> d
      [] id = "WDTGAL"          -> 2 * d
      [] id = "H41RESPPALDKNWW" -> 200 + 10 * (d - 1)
      [] id = "WLCFLL"          -> 100 + (d - 1)

\* the dates of S, latest first (sort = -record_date)
RECURSIVE Descending(_)
Descending(S) == IF S = {} THEN <<>> ELSE <<MaxOf(S)>> \o Descending(S \ {MaxOf(S)})

TreasuryRecord(d, account) ==
    [record_date |-> DateText(d), account_type |-> account,
     open_today_bal |-> ThousandsText(TreasuryBalance(d)), close_today_bal |-> NullText]

TreasuryDown == [ok |-> FALSE, has_data |-> FALSE, data |-> <<>>]
TreasuryNoData == [ok |-> TRUE, has_data |-> FALSE, data |-> <<>>]
TreasuryRows(S, account) ==
    [ok |-> TRUE, has_data |-> TRUE,
     data |-> [i \in 1..Cardinality(S) |-> TreasuryRecord(Descending(S)[i], account)]]

WeeklyFrom(start) == {d \in Dates : d >= start /\ (d - start) % WeekLen = 0}
DailyFrom(start) == {d \in Dates : d >= start}
Starts == 1..(MaxDate + 1)
\* the date sets of a series published daily or weekly since some date, or never
Calendars == {WeeklyFrom(s) : s \in Starts} \cup {DailyFrom(s) : s \in Starts}

TreasuryAnswers ==
    {TreasuryDown, TreasuryNoData, TreasuryRows(Dates, FEDERAL_RESERVE)}
        \cup {TreasuryRows(S, TGA_CLOSING) : S \in Calendars}

Observations(id, S) == [d \in S |-> FredValue(id, d)]

FredObservations ==
    {[WALCL |-> Observations("WALCL", WeeklyFrom(a)),
      RRPONTSYD |-> Observations("RRPONTSYD", DailyFrom(r)),
      WDTGAL |-> Observations("WDTGAL", S),
      H41RESPPALDKNWW |-> Observations("H41RESPPALDKNWW", WeeklyFrom(f)),
      WLCFLL |-> Observations("WLCFLL", WeeklyFrom(h))] :
        a \in Starts, r \in Starts, f \in Starts, h \in Starts, S \in Calendars}

FullObservations ==
    [id \in FredIdSet |-> Observations(id, IF id = "RRPONTSYD" \/ id = "WDTGAL"
                                            THEN Dates ELSE WeeklyFrom(1))]

NoObservations == [id \in FredIdSet |-> <<>>]

FredAnswers ==
    {[fails |-> {}, obs |-> o] : o \in FredObservations}
        \cup {[fails |-> F, obs |-> FullObservations] :
                F \in {{id} : id \in FredIdSet} \cup {FredIdSet}}

(***************************************************************************)
(* The run                                                                 *)
(***************************************************************************)
\* nothing fetched yet: the two answers are placeholders until the fetches
Init ==
    /\ treasury_api = TreasuryDown
    /\ fred_api = [fails |-> {}, obs |-> NoObservations]
    /\ pc = "start"
    /\ tga_df = EmptyFrame
    /\ fred_df = EmptyFrame
    /\ merged_df = EmptyFrame
    /\ file = PrevSnapshot
    /\ log = <<>>
    /\ exit_code = <<>>

\* tga_df = fetch_treasury_tga(), the endpoint answering one of answers
FetchTreasuryFrom(answers) ==
    /\ pc = "start"
    /\ \E answer \in answers :
          /\ treasury_api' = answer
          /\ tga_df' = fetch_treasury_tga(answer)
    /\ pc' = "fetch_fred"
    /\ UNCHANGED <<fred_api, fred_df, merged_df, file, log, exit_code>>

FetchTreasury == FetchTreasuryFrom(TreasuryAnswers)

\* fred_df = fetch_fred_data()
FetchFred ==
    /\ pc = "fetch_fred"
    /\ \E answer \in FredAnswers :
          /\ fred_api' = answer
          /\ fred_df' = fetch_fred_data(answer)
    /\ pc' = "check"
    /\ UNCHANGED <<treasury_api, tga_df, merged_df, file, log, exit_code>>

\* CRITICAL: No FRED data found. Exiting.
ExitNoFred ==
    /\ pc = "check"
    /\ ShouldAbort(tga_df, fred_df)
    /\ log' = Append(log, "CRITICAL")
    /\ exit_code' = <<FatalExitCode>>
    /\ pc' = "exit"
    /\ UNCHANGED <<treasury_api, fred_api, tga_df, fred_df, merged_df, file>>

\* 2. Merge Data, the daily TGA is there
MergeWithDaily ==
    /\ pc = "check"
    /\ ~ShouldAbort(tga_df, fred_df)
    /\ ~IsEmpty(tga_df)
    /\ merged_df' = MergeDaily(fred_df, tga_df)
    /\ pc' = "fill"
    /\ UNCHANGED <<treasury_api, fred_api, tga_df, fred_df, file, log, exit_code>>

\* 2. Merge Data, WARNING: Using Weekly TGA (FRED) as fallback.
MergeWithWeekly ==
    /\ pc = "check"
    /\ ~ShouldAbort(tga_df, fred_df)
    /\ IsEmpty(tga_df)
    /\ log' = Append(log, "WARNING")
    /\ merged_df' = MergeFallback(fred_df)
    /\ pc' = "fill"
    /\ UNCHANGED <<treasury_api, fred_api, tga_df, fred_df, file, exit_code>>

\* 3. Fill Missing Values
Fill ==
    /\ pc = "fill"
    /\ merged_df' = FillMissing(merged_df)
    /\ pc' = "calc"
    /\ UNCHANGED <<treasury_api, fred_api, tga_df, fred_df, file, log, exit_code>>

\* 4. Calculate Net Liquidity
Calculate ==
    /\ pc = "calc"
    /\ merged_df' = SetColumn(merged_df, "Net_Liquidity",
                              [d \in DOMAIN merged_df |-> Net_Liquidity(merged_df[d])])
    /\ pc' = "save"
    /\ UNCHANGED <<treasury_api, fred_api, tga_df, fred_df, file, log, exit_code>>

\* to_json opens public/data.json for writing: the file is truncated
OpenOutput ==
    /\ pc = "save"
    /\ log' = Append(log, "Saving")
    /\ file' = Truncated
    /\ pc' = "write"
    /\ UNCHANGED <<treasury_api, fred_api, tga_df, fred_df, merged_df, exit_code>>

\* the document reaches the file a piece at a time
WriteRecord ==
    /\ pc = "write"
    /\ Len(file.rows) < Len(OutputRecords(merged_df))
    /\ file' = [file EXCEPT !.rows = Append(@, OutputRecords(merged_df)[Len(@) + 1])]
    /\ UNCHANGED <<treasury_api, fred_api, pc, tga_df, fred_df, merged_df, log, exit_code>>

\* the file is closed; Done! Data updated.
CloseOutput ==
    /\ pc = "write"
    /\ Len(file.rows) = Len(OutputRecords(merged_df))
    /\ file' = [file EXCEPT !.closed = TRUE]
    /\ log' = Append(log, "Done")
    /\ exit_code' = <<0>>
    /\ pc' = "done"
    /\ UNCHANGED <<treasury_api, fred_api, tga_df, fred_df, merged_df>>

Next ==
    \/ FetchTreasury
    \/ FetchFred
    \/ ExitNoFred
    \/ MergeWithDaily
    \/ MergeWithWeekly
    \/ Fill
    \/ Calculate
    \/ OpenOutput
    \/ WriteRecord
    \/ CloseOutput

Spec == Init /\ [][Next]_vars

(***************************************************************************)
(* fetch_treasury_tga on arbitrary record lists                            *)
(***************************************************************************)
Text2000 == <<"2", ",", "0", "0", "0">>
Text2010 == <<"2", "0", "1", "0">>
EmptyText == <<>>

\* <<close_today_bal, open_today_bal>>
BalancePairs ==
    {<<Text2000, Text2010>>, <<NullText, Text2010>>, <<None, Text2000>>, <<EmptyText, None>>}

AccountTypes == {TGA_CLOSING, TGA_OPENING_UPPER, FEDERAL_RESERVE}

Records ==
    {[record_date |-> DateText(d), account_type |-> a,
      open_today_bal |-> b[2], close_today_bal |-> b[1]] :
        d \in Dates, a \in AccountTypes, b \in BalancePairs}

RecordLists == UNION {[1..n -> Records] : n \in 0..MaxRecs}

TreasuryResponses ==
    {TreasuryDown, TreasuryNoData}
        \cup {[ok |-> TRUE, has_data |-> TRUE, data |-> l] : l \in RecordLists}

\* fetch_treasury_tga applied to every response of the family
FetchTreasuryAny == FetchTreasuryFrom(TreasuryResponses)

NextTGA == FetchTreasuryAny

SpecTGA == Init /\ [][NextTGA]_vars

(***************************************************************************)
(* Reference notions the properties are stated with                        *)
(***************************************************************************)
\* the most recent real observation of column c of a fetched frame at or before d
LastCell(df, c, d) ==
    LET S == {e \in DOMAIN df : e <= d /\ ~IsNa(df[e][c])}
    IN  IF S = {} THEN NaN ELSE df[MaxOf(S)][c]

\* column c of a fetched frame has a real observation at or after d
ObservedFrom(df, c, d) == \E e \in DOMAIN df : e >= d /\ ~IsNa(df[e][c])

Fetched == pc \notin {"start", "fetch_fred"}
Degraded == Fetched /\ IsEmpty(tga_df) /\ ~IsEmpty(fred_df)
Normal == Fetched /\ ~IsEmpty(tga_df) /\ ~IsEmpty(fred_df)
Writing == pc \in {"write", "done"}

DateOf(rec) == ToDatetime(rec.date)
InputDates == (DOMAIN fred_df) \cup (DOMAIN tga_df)
WrittenDates == {DateOf(file.rows[i]) : i \in DOMAIN file.rows}

\* the real observation behind the TGA operand of date d, in millions
TgaOperand(d) ==
    IF IsEmpty(tga_df) THEN Mul(LastCell(fred_df, "TGA_Weekly", d), 1000)
    ELSE LastCell(tga_df, "TGA_Daily", d)

FredRequired == {"Fed_Assets", "RRP", "Liquidity_Facilities", "Loans_Held"}
OutputFields == {"Net_Liquidity", "Fed_Assets", "RRP", "TGA_Daily",
                 "Liquidity_Facilities", "Loans_Held"}

\* every required series has a real observation at or before d
AllStarted(d) ==
    /\ \A c \in FredRequired : ~IsNa(LastCell(fred_df, c, d))
    /\ ~IsNa(TgaOperand(d))

(***************************************************************************)
(* Properties                                                              *)
(***************************************************************************)

\* C1: whenever the FRED fetch returned an empty frame, whatever the Treasury
\* fetch returned, the only step main can take is the fatal exit, the exit
\* status is non-zero, and public/data.json keeps the previous content.
FatalAbsence ==
    (Fetched /\ IsEmpty(fred_df)) =>
        /\ file = PrevSnapshot
        /\ pc \in {"check", "exit"}
        /\ pc = "check" => (ENABLED ExitNoFred) /\ ~(ENABLED (MergeWithDaily \/ MergeWithWeekly))
        /\ pc = "exit" => exit_code # <<>> /\ exit_code[1] # 0

\* C1 witness: the run has exited on empty FRED data although the Treasury
\* fetch had delivered daily TGA values.
FatalAbsenceReached ==
    /\ pc = "exit"
    /\ IsEmpty(fred_df)
    /\ ~IsEmpty(tga_df)
    /\ exit_code = <<1>>
    /\ file = PrevSnapshot

\* C2: with both TGA sources non-empty, the reconciled column holds, per date,
\* the daily value where the Treasury has an observation and the weekly value
\* (times 1000) where the Treasury has none and FRED has one.
FallbackPerDate ==
    (Normal /\ pc = "fill" /\ (\E d \in DOMAIN fred_df : ~IsNa(fred_df[d]["TGA_Weekly"]))) =>
        \A d \in DOMAIN merged_df :
            /\ d \in DOMAIN tga_df => merged_df[d]["Final_TGA"] = tga_df[d]["TGA_Daily"]
            /\ (d \notin DOMAIN tga_df /\ ~IsNa(merged_df[d]["TGA_Weekly"])) =>
                   merged_df[d]["Final_TGA"] = Mul(merged_df[d]["TGA_Weekly"], 1000)

\* C3: the run aborts only when the whole FRED source set is empty: every
\* FRED series either failed or has no observation. A failure of one series
\* alone, the other series being available, never aborts the run.
FailureIsolation ==
    pc = "exit" =>
        \A id \in FredIdSet : id \in fred_api.fails \/ DOMAIN fred_api.obs[id] = {}

\* C4: in degraded mode (Treasury frame empty, FRED frame not) the run does not
\* take the fatal exit, the warning is printed before the file is touched, and
\* every record written has all fields, its TGA being the latest weekly TGA
\* observation at or before its date times 1000.
DegradedMode ==
    Degraded =>
        /\ pc # "exit" /\ exit_code \in {<<>>, <<0>>}
        /\ pc = "check" => (ENABLED MergeWithWeekly) /\ ~(ENABLED ExitNoFred)
        /\ pc # "check" => log # <<>> /\ log[1] = "WARNING"
        /\ file # PrevSnapshot => Writing
        /\ \A i \in DOMAIN file.rows :
              Writing =>
                /\ \A f \in OutputFields : ~IsNa(file.rows[i][f])
                /\ file.rows[i].TGA_Daily =
                       Mul(LastCell(fred_df, "TGA_Weekly", DateOf(file.rows[i])), 1000)
        /\ pc = "done" => file.closed /\ WrittenDates = DOMAIN merged_df

\* C4 witness: a finished degraded run after a failed Treasury request, whose
\* output has a date without a weekly TGA observation of its own.
DegradedModeReached ==
    /\ pc = "done"
    /\ Degraded
    /\ ~treasury_api.ok
    /\ \E i \in DOMAIN file.rows :
          /\ IsNa(fred_df[DateOf(file.rows[i])]["TGA_Weekly"])
          /\ file.rows[i].TGA_Daily = Num(2000)

\* C5: every record written has a value in every field, and the formula is
\* only evaluated on rows whose operands are all present.
NoMissingValues ==
    /\ \A i \in DOMAIN file.rows : \A f \in OutputFields : ~IsNa(file.rows[i][f])
    /\ pc = "calc" =>
          \A d \in DOMAIN merged_df :
              \A c \in FredRequired \cup {"Final_TGA"} : ~IsNa(merged_df[d][c])

\* C5 witness: a finished normal-mode run that wrote records and left out a
\* leading date on which a required series had no value yet.
NoMissingValuesReached ==
    /\ pc = "done"
    /\ Normal
    /\ file.rows # <<>>
    /\ \E d \in InputDates : d \notin WrittenDates /\ ~AllStarted(d)

\* C6: in every row of the final table and every record written,
\* Net_Liquidity = Assets - TGA - 1000 * RRP + Facilities + Loans held, each
\* operand being the latest real observation at or before the row's date
\* (TGA: the daily value, or 1000 times the weekly one in degraded mode).
Formula ==
    /\ pc \in {"save", "write", "done"} =>
          \A d \in DOMAIN merged_df :
              merged_df[d]["Net_Liquidity"] =
                  Num(LastCell(fred_df, "Fed_Assets", d)[1]
                      - TgaOperand(d)[1]
                      - 1000 * LastCell(fred_df, "RRP", d)[1]
                      + LastCell(fred_df, "Liquidity_Facilities", d)[1]
                      + LastCell(fred_df, "Loans_Held", d)[1])
    /\ Writing =>
          \A i \in DOMAIN file.rows :
              LET r == file.rows[i]
              IN  /\ r.Net_Liquidity = merged_df[DateOf(r)]["Net_Liquidity"]
                  /\ r.Net_Liquidity[1] =
                        r.Fed_Assets[1] - r.TGA_Daily[1] - 1000 * r.RRP[1]
                            + r.Liquidity_Facilities[1] + r.Loans_Held[1]

\* C6 witness: a finished run wrote the record of the worked example scaled by
\* 20 (A=20000, TGA=2000, RRP=1000 i.e. 1 billion, Facilities=200, Held=100,
\* Net = 20 * 865 = 17300) and a later record with forward-filled operands.
FormulaReached ==
    /\ pc = "done"
    /\ Len(file.rows) >= 2
    /\ file.rows[1].Fed_Assets = Num(20000)
    /\ file.rows[1].TGA_Daily = Num(2000)
    /\ file.rows[1].RRP = Num(1)
    /\ file.rows[1].Liquidity_Facilities = Num(200)
    /\ file.rows[1].Loans_Held = Num(100)
    /\ file.rows[1].Net_Liquidity = Num(17300)
    /\ IsNa(fred_df[DateOf(file.rows[2])]["Fed_Assets"])

\* C7: at every moment public/data.json holds either the complete previous
\* snapshot or the complete new one.
AtomicOverwrite ==
    \/ file = PrevSnapshot
    \/ Writing /\ file = Snapshot(OutputRecords(merged_df))

\* what a balance text of the record family stands for
KnownAmount(text) ==
    CASE text = Text2000 -> Num(2000)
      [] text = Text2010 -> Num(2010)
      [] OTHER -> NaN

\* the account types of the record family that name the Treasury General Account
KnownTga(account) == account \in {TGA_CLOSING, TGA_OPENING_UPPER}

ApiRecords == IF treasury_api.ok /\ treasury_api.has_data THEN treasury_api.data ELSE <<>>

\* the records of date d that are TGA records with a parseable balance
Qualifying(d) ==
    {i \in DOMAIN ApiRecords :
        /\ ApiRecords[i].record_date = DateText(d)
        /\ KnownTga(ApiRecords[i].account_type)
        /\ \/ ~IsNa(KnownAmount(ApiRecords[i].close_today_bal))
           \/ ~IsNa(KnownAmount(ApiRecords[i].open_today_bal))}

\* C8: the frame fetch_treasury_tga returns has a row exactly for the dates
\* that have a TGA record with a parseable closing or opening balance, and
\* the row's value is taken from the first such record of the date: its
\* closing balance when parseable, otherwise its opening balance.
TgaSelection ==
    pc = "fetch_fred" =>
        /\ DOMAIN tga_df = {d \in Dates : Qualifying(d) # {}}
        /\ \A d \in DOMAIN tga_df :
              LET r == ApiRecords[MinOf(Qualifying(d))]
              IN  tga_df[d]["TGA_Daily"] =
                      IF ~IsNa(KnownAmount(r.close_today_bal))
                      THEN KnownAmount(r.close_today_bal)
                      ELSE KnownAmount(r.open_today_bal)

\* C8 witness: two qualifying records of one date, of different account types
\* and with different values, the first without a parseable closing balance;
\* the first record's opening balance is the date's value.
TgaSelectionReached ==
    /\ pc = "fetch_fred"
    /\ \E d \in Dates :
          /\ Cardinality(Qualifying(d)) = 2
          /\ LET r1 == ApiRecords[MinOf(Qualifying(d))]
                 r2 == ApiRecords[MaxOf(Qualifying(d))]
             IN  /\ IsNa(KnownAmount(r1.close_today_bal))
                 /\ r2.account_type # r1.account_type
                 /\ KnownAmount(r2.close_today_bal) # KnownAmount(r1.open_today_bal)
                 /\ ~IsNa(KnownAmount(r2.close_today_bal))
                 /\ tga_df[d]["TGA_Daily"] = KnownAmount(r1.open_today_bal)

\* the required series behind the operands of the formula in the run's mode
HasSupportFrom(d) ==
    /\ \A c \in FredRequired : ObservedFrom(fred_df, c, d)
    /\ IF IsEmpty(tga_df) THEN ObservedFrom(fred_df, "TGA_Weekly", d)
       ELSE ObservedFrom(tga_df, "TGA_Daily", d)

\* every column of the merged table has a real observation at or before d
EveryColumnStarted(d) ==
    /\ \A c \in Columns(fred_df) : ~IsNa(LastCell(fred_df, c, d))
    /\ \A c \in Columns(tga_df) : ~IsNa(LastCell(tga_df, c, d))

\* C9 as stated: no record is written for a date later than the last real
\* observation of some required series.
NoExtrapolation ==
    Writing => \A d \in WrittenDates : HasSupportFrom(d)

\* C9 amended: the output has no date later than the latest fetched
\* observation; a date of the inputs is written exactly when every column of
\* the merged table has a real observation at or before it, so trailing dates
\* after a series' last observation are kept; and every operand written is the
\* series' latest real observation at or before the date, carried forward.
CarriedForward ==
    pc = "done" =>
        /\ WrittenDates \subseteq InputDates
        /\ WrittenDates = {d \in InputDates : EveryColumnStarted(d)}
        /\ \A i \in DOMAIN file.rows :
              LET r == file.rows[i]
              IN  /\ r.Fed_Assets = LastCell(fred_df, "Fed_Assets", DateOf(r))
                  /\ r.RRP = LastCell(fred_df, "RRP", DateOf(r))
                  /\ r.Liquidity_Facilities = LastCell(fred_df, "Liquidity_Facilities", DateOf(r))
                  /\ r.Loans_Held = LastCell(fred_df, "Loans_Held", DateOf(r))
                  /\ r.TGA_Daily = TgaOperand(DateOf(r))

\* C9 witness: a finished run wrote a record for a date after the last real
\* observation of Fed_Assets, with the last observed value.
CarriedForwardReached ==
    /\ pc = "done"
    /\ \E i \in DOMAIN file.rows :
          /\ ~ObservedFrom(fred_df, "Fed_Assets", DateOf(file.rows[i]))
          /\ file.rows[i].Fed_Assets = LastCell(fred_df, "Fed_Assets", DateOf(file.rows[i]))

\* C10: a date of the outer join is left out of the output only if, after
\* substitution and forward-fill, some required series (Fed_Assets, RRP, the
\* reconciled TGA, Liquidity_Facilities, Loans_Held) still has no value there.
DroppedOnlyForRequired ==
    pc = "done" => \A d \in InputDates : d \notin WrittenDates => ~AllStarted(d)

====
